---- MODULE Spec2Model ----
(***************************************************************************)
(* The interactive login of the multi-endpoint cf CLI                      *)
(* (src/cf/commands/endpoint.go, type Login): endpoint resolution,         *)
(* credential negotiation, the bounded authentication loop, organization   *)
(* and space targeting, and the merge of the session into the history of   *)
(* instances; and the endpoint command of the same file (type Endpoint).   *)
(*                                                                         *)
(* Strings that the code only compares or stores are TLA+ strings.         *)
(* Strings the code parses (menu answers, names) are sequences of          *)
(* one-character strings, so that strconv.Atoi is computed, not assumed.   *)
(***************************************************************************)
EXTENDS Integers, Sequences, FiniteSets, TLC

(***************************************************************************)
(* Program constants                                                       *)
(***************************************************************************)
maxLoginTries == 3
maxChoices == 50

(***************************************************************************)
(* Bounds of the model                                                     *)
(***************************************************************************)
\* login runs per behaviour
MaxRuns == 2
\* out-of-range numeric answers accepted by one menu before it must end
MaxReprompts == 1

(***************************************************************************)
(* Messages                                                                *)
(***************************************************************************)
MsgConflict == "Incorrect usage: --sso-passcode flag cannot be used with --sso"
MsgUnableToAuthenticate == "Unable to authenticate."
MsgServiceAccount == "Service account currently logged in. Use 'cf logout' to log out service account and try again."
MsgOrgListing == "Error finding available orgs"
MsgSpaceListing == "Error finding available spaces"
MsgOrgNotFound == "Error finding org"
MsgSpaceNotFound == "Error finding space"
MsgEndpoint == "Error performing request"
MsgVersion == "Invalid API version"
MsgServerRejected == "Credentials were rejected, please try again."
MsgPromptsUnavailable == "Server error, status code: 500"
MsgNotFound == "not found"

\* an error value: NoError is Go's nil
NoError == [msg |-> "", name |-> <<>>, cause |-> ""]
Error(m, n, c) == [msg |-> m, name |-> n, cause |-> c]

\* fmt.Errorf(""): an error, not nil, whose text is empty
EmptyError == Error("", <<>>, "fmt.Errorf")

(***************************************************************************)
(* Character strings                                                       *)
(***************************************************************************)
Digit == <<"0", "1", "2", "3", "4", "5", "6", "7", "8", "9">>

IsDigit(ch) == \E d \in 1..10 : Digit[d] = ch

DigitVal(ch) == (CHOOSE d \in 1..10 : Digit[d] = ch) - 1

\* the decimal digits of the largest and of the smallest int (64 bits)
MaxInt64Digits == <<"9","2","2","3","3","7","2","0","3","6","8","5","4","7","7","5","8","0","7">>
MinInt64Digits == <<"9","2","2","3","3","7","2","0","3","6","8","5","4","7","7","5","8","0","8">>

RECURSIVE StripZeros(_)
StripZeros(s) ==
    IF Len(s) > 0 /\ s[1] = "0" THEN StripZeros(Tail(s)) ELSE s

RECURSIVE DecimalValue(_, _)
DecimalValue(s, acc) ==
    IF s = <<>> THEN acc ELSE DecimalValue(Tail(s), acc * 10 + DigitVal(s[1]))

RECURSIVE DigitsGreater(_, _)
\* s > t for two digit strings of the same length
DigitsGreater(s, t) ==
    IF s = <<>> THEN FALSE
    ELSE IF DigitVal(s[1]) # DigitVal(t[1]) THEN DigitVal(s[1]) > DigitVal(t[1])
    ELSE DigitsGreater(Tail(s), Tail(t))

\* strconv.Atoi: an optional sign, then one or more decimal digits, within
\* the range of int (64 bits).  err = TRUE stands for a non-nil error.  A
\* magnitude of more than 9 significant digits is held as 10^9: the code
\* only compares the value with 1 and with a length of at most maxChoices.
Atoi(s) ==
    LET signed == Len(s) > 0 /\ s[1] \in {"+", "-"}
        neg    == Len(s) > 0 /\ s[1] = "-"
        digits == IF signed THEN Tail(s) ELSE s
        sig    == StripZeros(digits)
        limit  == IF neg THEN MinInt64Digits ELSE MaxInt64Digits
    IN  IF digits = <<>> \/ \E k \in 1..Len(digits) : ~IsDigit(digits[k])
        THEN [err |-> TRUE, val |-> 0]
        ELSE IF Len(sig) > 19 \/ (Len(sig) = 19 /\ DigitsGreater(sig, limit))
        THEN [err |-> TRUE, val |-> 0]
        ELSE LET mag == IF Len(sig) > 9 THEN 1000000000
                        ELSE DecimalValue(sig, 0)
             IN  [err |-> FALSE, val |-> IF neg THEN 0 - mag ELSE mag]

RECURSIVE Itoa(_)
\* "%d" of a non-negative number
Itoa(n) ==
    IF n < 10 THEN <<Digit[n + 1]>> ELSE Itoa(n \div 10) \o <<Digit[(n % 10) + 1]>>

Min(a, b) == IF a < b THEN a ELSE b

(***************************************************************************)
(* Configuration store (coreconfig.ReadWriter) and the instance records    *)
(***************************************************************************)
NoFields == [Name |-> <<>>, GUID |-> <<>>]

\* models.OrganizationFields / models.SpaceFields of a found item
FieldsOf(name) == [Name |-> name, GUID |-> <<"g", "-">> \o name]

\* coreconfig.CFInstanceData as updateMultiInstances builds it
CFInstanceData(cfg) ==
    [AccessToken           |-> cfg.AccessToken,
     APIVersion            |-> cfg.APIVersion,
     AuthorizationEndpoint |-> cfg.AuthenticationEndpoint,
     OrganizationFields    |-> cfg.OrganizationFields,
     SpaceFields           |-> cfg.SpaceFields,
     RefreshToken          |-> cfg.RefreshToken]

\* ClearSession: the reset of the current session at flow entry
ClearSession(cfg) ==
    [cfg EXCEPT !.AccessToken = "", !.RefreshToken = "",
                !.OrganizationFields = NoFields, !.SpaceFields = NoFields]

VARIABLES
    config,    \* the persisted configuration store
    c,         \* the flag context of the current run
    pc,        \* position of the current run in Login.Execute
    L,         \* local variables of the functions on the stack
    err,       \* the error Login.Execute returned (NoError: nil)
    trace,     \* terminal and collaborator calls of the current run, in order
    runs       \* login runs started

vars == <<config, c, pc, L, err, trace, runs>>

(***************************************************************************)
(* Events of the trace                                                     *)
(***************************************************************************)
NoCreds == [k \in {} |-> ""]

Ev(op, key) ==
    [op |-> op, key |-> key, val |-> "", creds |-> NoCreds, n |-> 0, name |-> <<>>, ok |-> TRUE]

EvVal(op, key, val) == [Ev(op, key) EXCEPT !.val = val]
EvName(op, key, name) == [Ev(op, key) EXCEPT !.name = name]
EvNum(op, key, n, name) == [Ev(op, key) EXCEPT !.n = n, !.name = name]
EvCall(op, key, ok) == [Ev(op, key) EXCEPT !.ok = ok]
EvAuth(creds, ok) == [Ev("Authenticate", "") EXCEPT !.creds = creds, !.ok = ok]

Count(op, key) == Cardinality({k \in 1..Len(trace) : trace[k].op = op /\ trace[k].key = key})
CountOp(op) == Cardinality({k \in 1..Len(trace) : trace[k].op = op})

(***************************************************************************)
(* Initial state                                                           *)
(***************************************************************************)
NoFlags ==
    [a |-> "", skipSSL |-> FALSE, u |-> "", p |-> "", o |-> <<>>, s |-> <<>>,
     sso |-> FALSE, passcodeSet |-> FALSE, passcode |-> ""]

NoLocals ==
    [endpoint |-> "", skipSSL |-> FALSE,
     prompts |-> [k \in {} |-> [Type |-> "TEXT", DisplayName |-> <<>>]],
     passcode |-> [Type |-> "TEXT", DisplayName |-> <<>>],
     passwordKeys |-> <<>>, credentials |-> NoCreds, passwordFlagValue |-> "",
     i |-> 0, authErr |-> "",
     orgName |-> <<>>, spaceName |-> <<>>, names |-> <<>>,
     nameIndex |-> 0, reprompts |-> 0]

EndpointOne == "https://api.one.example.com"
EndpointTwo == "https://api.two.example.com"

\* the configuration left by earlier invocations of the CLI that never
\* logged in through this command: a target may have been set (cf api) and a
\* service account may be logged in (cf auth --client-credentials)
Init ==
    /\ \E target \in {"", EndpointOne}, ssl \in BOOLEAN, grant \in {"", "client_credentials"} :
          /\ (target = "" => ~ssl)
          /\ config = [Target |-> target, SSLDisabled |-> ssl,
                       AuthenticationEndpoint |-> "", APIVersion |-> "",
                       AccessToken |-> "", RefreshToken |-> "",
                       UAAGrantType |-> grant,
                       OrganizationFields |-> NoFields, SpaceFields |-> NoFields,
                       InstanceData |-> <<>>]
    /\ c = NoFlags
    /\ pc = "idle"
    /\ L = NoLocals
    /\ err = NoError
    /\ trace = <<>>
    /\ runs = 0

(***************************************************************************)
(* Login.decideEndpoint                                                    *)
(***************************************************************************)
decideEndpoint_OrAlways(flags, cfg, answer) ==
    LET e1 == IF flags.a = "" THEN cfg.Target ELSE flags.a
    IN  [endpoint |-> IF e1 = "" THEN answer ELSE e1,
         skipSSL  |-> cfg.SSLDisabled \/ flags.skipSSL,
         asked    |-> e1 = ""]

decideEndpoint_PersistedFirst(flags, cfg, answer) ==
    LET e1 == IF cfg.Target = "" THEN flags.a ELSE cfg.Target
    IN  [endpoint |-> IF e1 = "" THEN answer ELSE e1,
         skipSSL  |-> IF flags.a = "" THEN cfg.SSLDisabled \/ flags.skipSSL ELSE flags.skipSSL,
         asked    |-> e1 = ""]

\* answer: what the user types if asked for the API endpoint
decideEndpoint(flags, cfg, answer) ==
    LET e0 == flags.a
        s0 == flags.skipSSL
        e1 == IF e0 = "" THEN cfg.Target ELSE e0
        s1 == IF e0 = "" THEN cfg.SSLDisabled \/ s0 ELSE s0
    IN  [endpoint |-> IF e1 = "" THEN answer ELSE e1,
         skipSSL  |-> s1,
         asked    |-> e1 = ""]

(***************************************************************************)
(* Login.Execute, up to the resolved endpoint                              *)
(***************************************************************************)
Begin_NoClearSession(flags, answer) ==
    /\ pc \in {"idle", "done", "endpoint"}
    /\ runs < MaxRuns
    /\ LET d == decideEndpoint(flags, config, answer)
       IN  /\ config' = config
           /\ L' = [NoLocals EXCEPT !.endpoint = d.endpoint, !.skipSSL = d.skipSSL]
           /\ trace' = IF d.asked
                       THEN <<EvVal("Ask", "API endpoint", answer)>>
                       ELSE <<EvVal("Say", "API endpoint", d.endpoint)>>
    /\ c' = flags
    /\ err' = NoError
    /\ pc' = "setAPIEndpoint"
    /\ runs' = runs + 1

\* The deferred cmd.ui.Say("") and ShowConfiguration of Execute and
\* NotifyUpdateIfNeeded only print: they are left out of the trace.
Begin(flags, answer) ==
    /\ pc \in {"idle", "done", "endpoint"}
    /\ runs < MaxRuns
    /\ LET cfg == ClearSession(config)
           d   == decideEndpoint(flags, cfg, answer)
       IN  /\ config' = cfg
           /\ L' = [NoLocals EXCEPT !.endpoint = d.endpoint, !.skipSSL = d.skipSSL]
           /\ trace' = IF d.asked
                       THEN <<EvVal("Ask", "API endpoint", answer)>>
                       ELSE <<EvVal("Say", "API endpoint", d.endpoint)>>
    /\ c' = flags
    /\ err' = NoError
    /\ pc' = "setAPIEndpoint"
    /\ runs' = runs + 1

(***************************************************************************)
(* API.setAPIEndpoint and the check of the API version                     *)
(***************************************************************************)
LoginOne == "https://login.one.example.com"
LoginTwo == "https://login.two.example.com"

\* the authorization endpoints the API at `endpoint` may declare in its info:
\* its own URL or the URL of a separate login server
AuthorizationEndpoints(endpoint) ==
    {endpoint, IF endpoint = EndpointTwo THEN LoginTwo ELSE LoginOne}

\* ok: the endpoint answered; auth: the authorization endpoint it declares;
\* version: the API version it declares
setAPIEndpoint(cfg, endpoint, skipSSL, ok, auth, version) ==
    IF ok
    THEN [cfg EXCEPT !.Target = endpoint, !.SSLDisabled = skipSSL,
                     !.AuthenticationEndpoint = auth, !.APIVersion = version]
    ELSE [cfg EXCEPT !.Target = "", !.SSLDisabled = FALSE]

\* command.MinimumCCAPIVersionCheck against the minimum supported version;
\* a declared version is held by what the check makes of it
MinimumCCAPIVersionCheck(version) ==
    CASE version = "supported" -> "nil"
      [] version = "outdated"  -> "MinimumCFAPIVersionNotMetError"
      [] OTHER                 -> "error"

SetAPIEndpoint(ok, auth, version) ==
    /\ pc = "setAPIEndpoint"
    /\ config' = setAPIEndpoint(config, L.endpoint, L.skipSSL, ok, auth, version)
    /\ LET check == MinimumCCAPIVersionCheck(version)
           called == Append(trace, EvCall("setAPIEndpoint", "", ok))
       IN  IF ~ok
           THEN /\ err' = Error(MsgEndpoint, <<>>, "")
                /\ pc' = "done"
                /\ trace' = called
           ELSE IF check = "error"
           THEN /\ err' = Error(MsgVersion, <<>>, "")
                /\ pc' = "done"
                /\ trace' = called
           ELSE /\ err' = err
                /\ pc' = "switch"
                /\ trace' = IF check = "nil" THEN called
                            ELSE Append(called, Ev("Warn", "API version"))
    /\ UNCHANGED <<c, L, runs>>

(***************************************************************************)
(* The prompt catalog and the credentials                                  *)
(***************************************************************************)
\* prompts[key] of a Go map: the zero value when the key is absent
Lookup(prompts, key) ==
    IF key \in DOMAIN prompts THEN prompts[key]
    ELSE [Type |-> "TEXT", DisplayName |-> <<>>]

Put(creds, key, value) ==
    [k \in DOMAIN creds \cup {key} |-> IF k = key THEN value ELSE creds[k]]

\* what the user types at the n-th credential prompt of a run; the answers
\* are pairwise distinct and differ from every flag value, so a credential
\* shows which prompt or flag it came from
Typed ==
    <<"typed-1", "typed-2", "typed-3", "typed-4", "typed-5", "typed-6",
      "typed-7", "typed-8", "typed-9", "typed-10", "typed-11", "typed-12",
      "typed-13", "typed-14", "typed-15", "typed-16", "typed-17", "typed-18">>

IsCredentialPrompt(e) ==
    /\ e.op \in {"Ask", "AskForPassword"}
    /\ e.key \notin {"API endpoint", "Org", "Space"}

Answer(tr) ==
    Typed[1 + Cardinality({k \in 1..Len(tr) : IsCredentialPrompt(tr[k])})]

\* cmd.ui.Ask / cmd.ui.AskForPassword for the prompt `key`
AskEvent(tr, op, key, label) ==
    [Ev(op, key) EXCEPT !.val = Answer(tr), !.name = label]

\* the orders in which a range over the map may visit its keys
Orders(S) ==
    {f \in [1..Cardinality(S) -> S] : \A x, y \in 1..Cardinality(S) : x # y => f[x] # f[y]}

\* the session tokens the authenticator stores on success
Token == <<"token-1", "token-2", "token-3", "token-4">>
Authenticated(cfg, run) ==
    [cfg EXCEPT !.AccessToken = Token[run], !.RefreshToken = Token[run]]

(***************************************************************************)
(* Login.Execute: the switch on --sso and --sso-passcode                   *)
(***************************************************************************)
ConflictingFlags(flags) == flags.sso /\ flags.passcodeSet
SSOFlow(flags) == flags.sso \/ flags.passcodeSet

ExecuteConflict ==
    /\ pc = "switch"
    /\ ConflictingFlags(c)
    /\ err' = Error(MsgConflict, <<>>, "")
    /\ pc' = "done"
    /\ UNCHANGED <<config, c, L, trace, runs>>

(***************************************************************************)
(* Login.authenticateSSO                                                   *)
(***************************************************************************)
\* the prompt used for the passcode
passcodePrompt(prompts, authEndpoint) ==
    LET passcode == Lookup(prompts, "passcode")
    IN  IF passcode.DisplayName = <<>>
        THEN [Type |-> "PASSWORD",
              DisplayName |-> <<"Temporary Authentication Code ( Get one at ",
                                authEndpoint, "/passcode )">>]
        ELSE passcode

AuthenticateSSOBegin(fetched, prompts) ==
    /\ pc = "switch"
    /\ ~ConflictingFlags(c)
    /\ SSOFlow(c)
    /\ trace' = Append(trace, EvCall("GetLoginPrompts", "", fetched))
    /\ IF ~fetched
       THEN /\ err' = Error(MsgPromptsUnavailable, <<>>, "")
            /\ pc' = "done"
            /\ L' = L
       ELSE /\ err' = err
            /\ pc' = "authenticateSSO"
            /\ L' = [L EXCEPT !.prompts = prompts,
                              !.passcode = passcodePrompt(prompts, config.AuthenticationEndpoint),
                              !.credentials = NoCreds, !.i = 0, !.authErr = ""]
    /\ UNCHANGED <<config, c, runs>>

UseFlagPasscode_EveryTry(isSet, i) == isSet

\* c.IsSet("sso-passcode") && i == 0
UseFlagPasscode(isSet, i) == isSet /\ i = 0

TryAgain_Unbounded(i, ok) == ~ok

TryAgain_NoBreak(i, ok) == i + 1 < maxLoginTries

\* whether the loop runs another iteration after iteration i: it breaks on
\* success and ends when i++ reaches maxLoginTries
TryAgain(i, ok) == ~ok /\ i + 1 < maxLoginTries

loginError_Nil(authErr) == NoError

\* the value returned after the loop
loginError(authErr) ==
    IF authErr # "" THEN Error(MsgUnableToAuthenticate, <<>>, "") ELSE NoError

\* one iteration of the loop of authenticateSSO, and the return when it ends
AuthenticateSSOTry(ok) ==
    /\ pc = "authenticateSSO"
    /\ LET fromFlag == UseFlagPasscode(c.passcodeSet, L.i)
           ask      == AskEvent(trace, "AskForPassword", "passcode", L.passcode.DisplayName)
           value    == IF fromFlag THEN c.passcode ELSE ask.val
           creds    == Put(L.credentials, "passcode", value)
           tr1      == IF fromFlag THEN trace ELSE Append(trace, ask)
           tr2      == tr1 \o <<Ev("Say", "Authenticating..."), EvAuth(creds, ok)>>
           authErr  == IF ok THEN "" ELSE MsgServerRejected
           tr3      == IF ok THEN tr2 \o <<Ev("Ok", ""), Ev("Say", "")>>
                       ELSE Append(tr2, EvVal("Say", "error", authErr))
           again    == TryAgain(L.i, ok)
       IN  /\ trace' = tr3
           /\ config' = IF ok THEN Authenticated(config, runs) ELSE config
           /\ L' = [L EXCEPT !.credentials = creds, !.authErr = authErr,
                             !.i = IF ok /\ ~again THEN L.i ELSE L.i + 1]
           /\ IF again
              THEN pc' = "authenticateSSO" /\ err' = err
              ELSE /\ err' = loginError(authErr)
                   /\ pc' = IF loginError(authErr) = NoError THEN "setOrganization" ELSE "done"
    /\ UNCHANGED <<c, runs>>

(***************************************************************************)
(* Login.authenticate                                                      *)
(***************************************************************************)
RECURSIVE rangePrompts(_, _, _)
\* the loop over the catalog before the tries, visiting the keys in `order`:
\* st = [credentials, passwordKeys, trace]
rangePrompts(order, prompts, st) ==
    IF order = <<>> THEN st
    ELSE LET key    == Head(order)
             prompt == prompts[key]
             ask    == AskEvent(st.trace, "Ask", key, prompt.DisplayName)
             next   ==
                 IF prompt.Type = "PASSWORD"
                 THEN IF key = "passcode" \/ key = "password" THEN st
                      ELSE [st EXCEPT !.passwordKeys = Append(st.passwordKeys, key)]
                 ELSE IF key = "username" THEN st
                 ELSE [st EXCEPT !.credentials = Put(st.credentials, key, ask.val),
                                 !.trace = Append(st.trace, ask)]
         IN  rangePrompts(Tail(order), prompts, next)

\* the "username" credential, set before the loop over the catalog
usernameStep(prompts, usernameFlagValue, st) ==
    IF "username" \in DOMAIN prompts
    THEN IF prompts["username"].Type = "TEXT" /\ usernameFlagValue # ""
         THEN [st EXCEPT !.credentials = Put(st.credentials, "username", usernameFlagValue)]
         ELSE LET ask == AskEvent(st.trace, "Ask", "username", prompts["username"].DisplayName)
              IN  [st EXCEPT !.credentials = Put(st.credentials, "username", ask.val),
                             !.trace = Append(st.trace, ask)]
    ELSE st

serviceAccountActive_Never(cfg) == FALSE

\* the grant type of the session held by the configuration is that of a
\* service account
serviceAccountActive(cfg) == cfg.UAAGrantType = "client_credentials"

AuthenticateBegin(fetched, prompts, order) ==
    /\ pc = "switch"
    /\ ~ConflictingFlags(c)
    /\ ~SSOFlow(c)
    /\ IF serviceAccountActive(config)
       THEN /\ err' = Error(MsgServiceAccount, <<>>, "")
            /\ pc' = "done"
            /\ UNCHANGED <<L, trace>>
       ELSE IF ~fetched
       THEN /\ err' = Error(MsgPromptsUnavailable, <<>>, "")
            /\ pc' = "done"
            /\ trace' = Append(trace, EvCall("GetLoginPrompts", "", FALSE))
            /\ L' = L
       ELSE LET st0 == [credentials |-> NoCreds, passwordKeys |-> <<>>,
                        trace |-> Append(trace, EvCall("GetLoginPrompts", "", TRUE))]
                st1 == usernameStep(prompts, c.u, st0)
                st2 == rangePrompts(order, prompts, st1)
            IN  /\ err' = err
                /\ pc' = "authenticate"
                /\ trace' = st2.trace
                /\ L' = [L EXCEPT !.prompts = prompts,
                                  !.credentials = st2.credentials,
                                  !.passwordKeys = st2.passwordKeys,
                                  !.passwordFlagValue = c.p,
                                  !.i = 0, !.authErr = ""]
    /\ UNCHANGED <<config, c, runs>>

\* the "password" credential of one try: st = [credentials, passwordFlagValue, trace]
passwordStep(prompts, passwordFlagValue, st) ==
    IF "password" \in DOMAIN prompts
    THEN IF passwordFlagValue # ""
         THEN [st EXCEPT !.credentials = Put(st.credentials, "password", passwordFlagValue),
                         !.passwordFlagValue = ""]
         ELSE LET ask == AskEvent(st.trace, "AskForPassword", "password",
                                  prompts["password"].DisplayName)
              IN  [st EXCEPT !.credentials = Put(st.credentials, "password", ask.val),
                             !.trace = Append(st.trace, ask)]
    ELSE st

RECURSIVE passwordKeysStep_Once(_, _, _)
passwordKeysStep_Once(keys, prompts, st) ==
    IF keys = <<>> THEN st
    ELSE LET key == Head(keys)
             ask == AskEvent(st.trace, "AskForPassword", key, prompts[key].DisplayName)
         IN  passwordKeysStep_Once(Tail(keys), prompts,
                 IF key \in DOMAIN st.credentials THEN st
                 ELSE [st EXCEPT !.credentials = Put(st.credentials, key, ask.val),
                                 !.trace = Append(st.trace, ask)])

RECURSIVE passwordKeysStep(_, _, _)
\* the other secrets of one try, in the order of passwordKeys
passwordKeysStep(keys, prompts, st) ==
    IF keys = <<>> THEN st
    ELSE LET key == Head(keys)
             ask == AskEvent(st.trace, "AskForPassword", key, prompts[key].DisplayName)
         IN  passwordKeysStep(Tail(keys), prompts,
                 [st EXCEPT !.credentials = Put(st.credentials, key, ask.val),
                            !.trace = Append(st.trace, ask)])

\* one iteration of the loop of authenticate, and the return when it ends
AuthenticateTry(ok) ==
    /\ pc = "authenticate"
    /\ LET st0 == [credentials |-> L.credentials, passwordFlagValue |-> L.passwordFlagValue,
                   trace |-> trace]
           st1 == passwordStep(L.prompts, L.passwordFlagValue, st0)
           st2 == passwordKeysStep(L.passwordKeys, L.prompts, st1)
           credentialsCopy == st2.credentials
           tr2 == st2.trace \o <<Ev("Say", "Authenticating..."), EvAuth(credentialsCopy, ok)>>
           authErr == IF ok THEN "" ELSE MsgServerRejected
           tr3 == IF ok THEN tr2 \o <<Ev("Ok", ""), Ev("Say", "")>>
                  ELSE Append(tr2, EvVal("Say", "error", authErr))
           again == TryAgain(L.i, ok)
       IN  /\ trace' = tr3
           /\ config' = IF ok THEN Authenticated(config, runs) ELSE config
           /\ L' = [L EXCEPT !.credentials = st2.credentials,
                             !.passwordFlagValue = st2.passwordFlagValue,
                             !.authErr = authErr,
                             !.i = IF ok /\ ~again THEN L.i ELSE L.i + 1]
           /\ IF again
              THEN pc' = "authenticate" /\ err' = err
              ELSE /\ err' = loginError(authErr)
                   /\ pc' = IF loginError(authErr) = NoError THEN "setOrganization" ELSE "done"
    /\ UNCHANGED <<c, runs>>

(***************************************************************************)
(* Login.promptForName                                                     *)
(***************************************************************************)
\* the line "%d. %s" of item i (counted from 0) of the list
menuLine(i, name) == Itoa(i + 1) \o <<".", " ">> \o name

showList_UpToMax(n) == n <= maxChoices

\* the list is displayed only if it is shorter than maxChoices
showList(n) == n < maxChoices

\* what one iteration prints before it asks
menuEvents(names, listPrompt) ==
    <<Ev("Say", listPrompt)>> \o
    (IF showList(Len(names))
     THEN [k \in 1..Len(names) |-> EvNum("Say", "item", k, menuLine(k - 1, names[k]))]
     ELSE <<Ev("Say", "There are too many options to display, please type in the name.")>>)

promptForName_AcceptsZero(names, listPrompt, itemPrompt, answer) ==
    LET events == Append(menuEvents(names, listPrompt), EvName("Ask", itemPrompt, answer))
        parsed == Atoi(answer)
    IN  IF answer = <<>>
        THEN [events |-> events, returns |-> TRUE, value |-> <<>>, nameIndex |-> 0]
        ELSE IF parsed.err
        THEN [events |-> events, returns |-> TRUE, value |-> answer, nameIndex |-> 1]
        ELSE IF parsed.val < 0 \/ parsed.val > Len(names)
        THEN [events |-> events, returns |-> FALSE, value |-> <<>>, nameIndex |-> parsed.val]
        ELSE [events |-> events, returns |-> TRUE,
              value |-> names[IF parsed.val = 0 THEN 1 ELSE parsed.val],
              nameIndex |-> parsed.val]

\* one iteration of the loop, entered with nameIndex < 1 or > len(names),
\* given the answer typed: whether the function returns, and what
promptForName(names, listPrompt, itemPrompt, answer) ==
    LET events == Append(menuEvents(names, listPrompt), EvName("Ask", itemPrompt, answer))
        parsed == Atoi(answer)
    IN  IF answer = <<>>
        THEN [events |-> events, returns |-> TRUE, value |-> <<>>, nameIndex |-> 0]
        ELSE IF parsed.err
        THEN [events |-> events, returns |-> TRUE, value |-> answer, nameIndex |-> 1]
        ELSE IF parsed.val < 1 \/ parsed.val > Len(names)
        THEN [events |-> events, returns |-> FALSE, value |-> <<>>, nameIndex |-> parsed.val]
        ELSE [events |-> events, returns |-> TRUE, value |-> names[parsed.val],
              nameIndex |-> parsed.val]

(***************************************************************************)
(* Login.setOrganization                                                   *)
(***************************************************************************)
\* the names of the n organizations (spaces) the directory holds
OrgNames(n) == [k \in 1..n |-> <<"o">> \o Itoa(k)]
SpaceNames(n) == [k \in 1..n |-> <<"s">> \o Itoa(k)]

\* orgRepo.ListOrgs(limit): at most `limit` organizations
ListOrgs(all, limit) == SubSeq(all, 1, Min(Len(all), limit))

afterOrganization_Always(orgIsSet) == "setSpace"

\* Login.Execute after setOrganization has returned orgIsSet without error:
\* the space stage runs only if an organization is set
afterOrganization(orgIsSet) == IF orgIsSet THEN "setSpace" ELSE "updateMultiInstances"

needsListing_Always(name) == TRUE

\* without a name from the flag the items are listed
needsListing(name) == name = <<>>

SetOrganization(listed, n) ==
    /\ pc = "setOrganization"
    /\ IF ~needsListing(c.o)
       THEN /\ L' = [L EXCEPT !.orgName = c.o]
            /\ pc' = "findOrg"
            /\ UNCHANGED <<config, err, trace>>
       ELSE IF ~listed
       THEN /\ trace' = Append(trace, EvCall("ListOrgs", "", FALSE))
            /\ err' = Error(MsgOrgListing, <<>>, MsgNotFound)
            /\ pc' = "done"
            /\ UNCHANGED <<config, L>>
       ELSE LET orgs == ListOrgs(OrgNames(n), maxChoices)
                tr   == Append(trace, [EvCall("ListOrgs", "", TRUE) EXCEPT !.n = Len(orgs)])
            IN  CASE Len(orgs) = 0 ->
                       /\ trace' = tr
                       /\ pc' = afterOrganization(FALSE)
                       /\ UNCHANGED <<config, L, err>>
                  [] Len(orgs) = 1 ->
                       /\ config' = [config EXCEPT !.OrganizationFields = FieldsOf(orgs[1])]
                       /\ trace' = Append(tr, EvName("Say", "Targeted org", orgs[1]))
                       /\ pc' = afterOrganization(TRUE)
                       /\ UNCHANGED <<L, err>>
                  [] OTHER ->
                       /\ trace' = tr
                       /\ L' = [L EXCEPT !.names = orgs, !.nameIndex = 0, !.reprompts = 0]
                       /\ pc' = "promptForOrgName"
                       /\ UNCHANGED <<config, err>>
    /\ UNCHANGED <<c, runs>>

\* one iteration of promptForName for the organization, and what
\* setOrganization does with the name when the function returns
PromptForOrgName(answer) ==
    /\ pc = "promptForOrgName"
    /\ LET r == promptForName(L.names, "Select an org (or press enter to skip):", "Org", answer)
       IN  /\ r.returns \/ L.reprompts < MaxReprompts
           /\ IF ~r.returns
              THEN /\ trace' = trace \o r.events
                   /\ L' = [L EXCEPT !.nameIndex = r.nameIndex, !.reprompts = L.reprompts + 1]
                   /\ pc' = "promptForOrgName"
              ELSE IF r.value = <<>>
              THEN /\ trace' = (trace \o r.events) \o <<Ev("Say", "")>>
                   /\ L' = [L EXCEPT !.nameIndex = r.nameIndex, !.names = <<>>, !.orgName = <<>>]
                   /\ pc' = afterOrganization(FALSE)
              ELSE /\ trace' = trace \o r.events
                   /\ L' = [L EXCEPT !.nameIndex = r.nameIndex, !.names = <<>>, !.orgName = r.value]
                   /\ pc' = "findOrg"
    /\ UNCHANGED <<config, c, err, runs>>

\* orgRepo.FindByName(orgName) and what follows it
FindOrg(found) ==
    /\ pc = "findOrg"
    /\ IF ~found
       THEN /\ trace' = Append(trace, [EvCall("FindOrg", "", FALSE) EXCEPT !.name = L.orgName])
            /\ err' = Error(MsgOrgNotFound, L.orgName, MsgNotFound)
            /\ pc' = "done"
            /\ config' = config
       ELSE /\ trace' = trace \o <<[EvCall("FindOrg", "", TRUE) EXCEPT !.name = L.orgName],
                                   EvName("Say", "Targeted org", L.orgName)>>
            /\ config' = [config EXCEPT !.OrganizationFields = FieldsOf(L.orgName)]
            /\ pc' = afterOrganization(TRUE)
            /\ err' = err
    /\ UNCHANGED <<c, L, runs>>

(***************************************************************************)
(* Login.setSpace                                                          *)
(***************************************************************************)
RECURSIVE ListSpaces(_, _)
\* spaceRepo.ListSpaces with the callback of setSpace: each space is appended
\* and the listing goes on while fewer than maxChoices are held
ListSpaces(all, availableSpaces) ==
    IF all = <<>> THEN availableSpaces
    ELSE LET held == Append(availableSpaces, Head(all))
         IN  IF Len(held) < maxChoices THEN ListSpaces(Tail(all), held) ELSE held

SetSpace(listed, n) ==
    /\ pc = "setSpace"
    /\ IF ~needsListing(c.s)
       THEN /\ L' = [L EXCEPT !.spaceName = c.s]
            /\ pc' = "findSpace"
            /\ UNCHANGED <<config, err, trace>>
       ELSE IF ~listed
       THEN /\ trace' = Append(trace, EvCall("ListSpaces", "", FALSE))
            /\ err' = Error(MsgSpaceListing, <<>>, MsgNotFound)
            /\ pc' = "done"
            /\ UNCHANGED <<config, L>>
       ELSE LET availableSpaces == ListSpaces(SpaceNames(n), <<>>)
                tr == Append(trace, [EvCall("ListSpaces", "", TRUE) EXCEPT !.n = Len(availableSpaces)])
            IN  CASE Len(availableSpaces) = 0 ->
                       /\ trace' = tr
                       /\ pc' = "updateMultiInstances"
                       /\ UNCHANGED <<config, L, err>>
                  [] Len(availableSpaces) = 1 ->
                       /\ config' = [config EXCEPT !.SpaceFields = FieldsOf(availableSpaces[1])]
                       /\ trace' = Append(tr, EvName("Say", "Targeted space", availableSpaces[1]))
                       /\ pc' = "updateMultiInstances"
                       /\ UNCHANGED <<L, err>>
                  [] OTHER ->
                       /\ trace' = tr
                       /\ L' = [L EXCEPT !.names = availableSpaces, !.nameIndex = 0, !.reprompts = 0]
                       /\ pc' = "promptForSpaceName"
                       /\ UNCHANGED <<config, err>>
    /\ UNCHANGED <<c, runs>>

PromptForSpaceName(answer) ==
    /\ pc = "promptForSpaceName"
    /\ LET r == promptForName(L.names, "Select a space (or press enter to skip):", "Space", answer)
       IN  /\ r.returns \/ L.reprompts < MaxReprompts
           /\ IF ~r.returns
              THEN /\ trace' = trace \o r.events
                   /\ L' = [L EXCEPT !.nameIndex = r.nameIndex, !.reprompts = L.reprompts + 1]
                   /\ pc' = "promptForSpaceName"
              ELSE IF r.value = <<>>
              THEN /\ trace' = (trace \o r.events) \o <<Ev("Say", "")>>
                   /\ L' = [L EXCEPT !.nameIndex = r.nameIndex, !.names = <<>>, !.spaceName = <<>>]
                   /\ pc' = "updateMultiInstances"
              ELSE /\ trace' = trace \o r.events
                   /\ L' = [L EXCEPT !.nameIndex = r.nameIndex, !.names = <<>>, !.spaceName = r.value]
                   /\ pc' = "findSpace"
    /\ UNCHANGED <<config, c, err, runs>>

FindSpace(found) ==
    /\ pc = "findSpace"
    /\ IF ~found
       THEN /\ trace' = Append(trace, [EvCall("FindSpace", "", FALSE) EXCEPT !.name = L.spaceName])
            /\ err' = Error(MsgSpaceNotFound, L.spaceName, MsgNotFound)
            /\ pc' = "done"
            /\ config' = config
       ELSE /\ trace' = trace \o <<[EvCall("FindSpace", "", TRUE) EXCEPT !.name = L.spaceName],
                                   EvName("Say", "Targeted space", L.spaceName)>>
            /\ config' = [config EXCEPT !.SpaceFields = FieldsOf(L.spaceName)]
            /\ pc' = "updateMultiInstances"
            /\ err' = err
    /\ UNCHANGED <<c, L, runs>>

(***************************************************************************)
(* Login.updateMultiInstances                                              *)
(***************************************************************************)
\* the instances written: the current session, then the stored instances
\* whose AuthorizationEndpoint differs from the configuration's APIEndpoint()
updateMultiInstances(cfg) ==
    LET kept(i) == i.AuthorizationEndpoint # cfg.Target
    IN  <<CFInstanceData(cfg)>> \o SelectSeq(cfg.InstanceData, kept)

UpdateMultiInstances ==
    /\ pc = "updateMultiInstances"
    /\ config' = [config EXCEPT !.InstanceData = updateMultiInstances(config)]
    /\ trace' = Append(trace, Ev("SetInstanceData", ""))
    /\ pc' = "done"
    /\ UNCHANGED <<c, L, err, runs>>

(***************************************************************************)
(* Endpoint.Execute: the command `endpoint -a PATTERN`                     *)
(***************************************************************************)
\* strings.Contains
Contains(s, substr) ==
    \E k \in 0..(Len(s) - Len(substr)) : SubSeq(s, k + 1, k + Len(substr)) = substr

\* the position of the first stored instance whose AuthorizationEndpoint
\* contains the pattern, 0 if there is none
findInstance(instances, apiEndpointPattern) ==
    LET hits == {k \in 1..Len(instances) :
                    Contains(instances[k].AuthorizationEndpoint, apiEndpointPattern)}
    IN  IF hits = {} THEN 0 ELSE CHOOSE k \in hits : \A h \in hits : k <= h

IsLoggedIn(cfg) == cfg.AccessToken # ""

MsgShowConfiguration == "Error reading the configuration"

\* the requirement of the command that an API endpoint is set
APIEndpointRequirement(cfg) == cfg.Target # ""

\* Execute runs when the requirements hold: -a is set and an API endpoint
\* is set (Requirements refuses the command otherwise);
\* shown: ShowConfiguration returned no error
EndpointExecute(apiEndpointPattern, shown) ==
    /\ pc \in {"idle", "done", "endpoint"}
    /\ APIEndpointRequirement(config)
    /\ LET k == findInstance(config.InstanceData, apiEndpointPattern)
       IN  IF k > 0
           THEN /\ trace' = <<EvVal("Say", "Found existed endpoint",
                                    config.InstanceData[k].AuthorizationEndpoint)>>
                /\ err' = NoError
           ELSE IF ~shown
           THEN /\ trace' = <<EvCall("ShowConfiguration", "", FALSE)>>
                /\ err' = Error(MsgShowConfiguration, <<>>, "")
           ELSE /\ trace' = <<EvCall("ShowConfiguration", "", TRUE), Ev("NotifyUpdateIfNeeded", "")>>
                /\ err' = IF ~IsLoggedIn(config) THEN EmptyError ELSE NoError
    /\ c' = [NoFlags EXCEPT !.a = apiEndpointPattern]
    /\ L' = NoLocals
    /\ pc' = "endpoint"
    /\ UNCHANGED <<config, runs>>

(***************************************************************************)
(* Inputs                                                                  *)
(***************************************************************************)
Flags(as, skips, us, ps, os, ss, ssos, passcodes) ==
    {[a |-> a, skipSSL |-> k, u |-> u, p |-> p, o |-> o, s |-> s, sso |-> sso,
      passcodeSet |-> pcd.isSet, passcode |-> pcd.value] :
        a \in as, k \in skips, u \in us, p \in ps, o \in os, s \in ss,
        sso \in ssos, pcd \in passcodes}

\* --sso-passcode: absent, or given with a value
NoPasscode == [isSet |-> FALSE, value |-> ""]
Passcode(value) == [isSet |-> TRUE, value |-> value]

Text(label) == [Type |-> "TEXT", DisplayName |-> <<label>>]
Secret(label) == [Type |-> "PASSWORD", DisplayName |-> <<label>>]

CatalogBasic ==
    [k \in {"username", "password"} |->
        IF k = "username" THEN Text("Email") ELSE Secret("Password")]

\* a login server with SAML enabled also declares the passcode
CatalogPasscode ==
    [k \in {"username", "password", "passcode"} |->
        CASE k = "username" -> Text("Email")
          [] k = "password" -> Secret("Password")
          [] OTHER          -> Secret("One Time Code")]

CatalogMFA ==
    [k \in {"username", "password", "company", "mfaCode", "pin"} |->
        CASE k = "username" -> Text("Email")
          [] k = "password" -> Secret("Password")
          [] k = "company"  -> Text("Company")
          [] k = "mfaCode"  -> Secret("MFA Code")
          [] OTHER          -> Secret("PIN")]

\* the kinds are the server's choice
CatalogOdd ==
    [k \in {"username", "password", "passcode"} |->
        CASE k = "username" -> Secret("Account")
          [] k = "password" -> Text("Password")
          [] OTHER          -> Text("One Time Code")]

CatalogEmpty == [k \in {} |-> Text("")]

Catalogs == {CatalogBasic, CatalogPasscode, CatalogMFA, CatalogOdd, CatalogEmpty}

Versions == {"supported", "outdated", "unparsable"}

\* numbers of items the directory may hold
ItemCounts == {0, 1, 2, maxChoices - 1, maxChoices, maxChoices + 1}

\* answers to a menu
MenuAnswers ==
    {<<>>, <<"1">>, <<"0">>, <<"-", "1">>, <<"5", "0">>, <<"5", "1">>, <<"x">>}

(***************************************************************************)
(* The login run with every stage, on few inputs                           *)
(***************************************************************************)
SpecFlags ==
    Flags({EndpointOne, EndpointTwo}, {FALSE}, {""}, {""}, {<<>>}, {<<>>},
          BOOLEAN, {NoPasscode, Passcode("123456")})

AllAuthorizationEndpoints == {EndpointOne, EndpointTwo, LoginOne, LoginTwo}

Next ==
    \/ \E flags \in SpecFlags : Begin(flags, "")
    \/ \E ok \in BOOLEAN, auth \in AllAuthorizationEndpoints :
          auth \in AuthorizationEndpoints(L.endpoint) /\ SetAPIEndpoint(ok, auth, "supported")
    \/ ExecuteConflict
    \/ \E fetched \in BOOLEAN : AuthenticateSSOBegin(fetched, CatalogPasscode)
    \/ \E ok \in BOOLEAN : AuthenticateSSOTry(ok)
    \/ \E fetched \in BOOLEAN, order \in Orders(DOMAIN CatalogBasic) :
          AuthenticateBegin(fetched, CatalogBasic, order)
    \/ \E ok \in BOOLEAN : AuthenticateTry(ok)
    \/ \E listed \in BOOLEAN, n \in {0, 1, 2} : SetOrganization(listed, n)
    \/ \E answer \in {<<>>, <<"1">>} : PromptForOrgName(answer)
    \/ \E found \in BOOLEAN : FindOrg(found)
    \/ \E listed \in BOOLEAN, n \in {0, 1, 2} : SetSpace(listed, n)
    \/ \E answer \in {<<>>, <<"1">>} : PromptForSpaceName(answer)
    \/ \E found \in BOOLEAN : FindSpace(found)
    \/ UpdateMultiInstances

Spec == Init /\ [][Next]_vars

(***************************************************************************)
(* The endpoint stage on all its inputs                                    *)
(***************************************************************************)
ResolverFlags ==
    Flags({"", EndpointOne, EndpointTwo}, BOOLEAN, {""}, {""}, {<<>>}, {<<>>}, {FALSE}, {NoPasscode})

NextResolver ==
    \/ \E flags \in ResolverFlags, answer \in {"", EndpointOne, EndpointTwo} :
          Begin(flags, answer)
    \/ \E ok \in BOOLEAN, version \in Versions, auth \in AllAuthorizationEndpoints :
          auth \in AuthorizationEndpoints(L.endpoint) /\ SetAPIEndpoint(ok, auth, version)

SpecResolver == Init /\ [][NextResolver]_vars

(***************************************************************************)
(* The authentication stage on all its inputs                              *)
(***************************************************************************)
AuthFlags ==
    Flags({EndpointOne}, {FALSE}, {"", "alice"}, {"", "secret"}, {<<>>}, {<<>>},
          BOOLEAN, {NoPasscode, Passcode("123456"), Passcode("")})

NextAuth ==
    \/ \E flags \in AuthFlags : Begin(flags, "")
    \/ SetAPIEndpoint(TRUE, LoginOne, "supported")
    \/ ExecuteConflict
    \/ \E fetched \in BOOLEAN, prompts \in Catalogs : AuthenticateSSOBegin(fetched, prompts)
    \/ \E ok \in BOOLEAN : AuthenticateSSOTry(ok)
    \/ \E fetched \in BOOLEAN, prompts \in Catalogs : \E order \in Orders(DOMAIN prompts) :
          AuthenticateBegin(fetched, prompts, order)
    \/ \E ok \in BOOLEAN : AuthenticateTry(ok)

SpecAuth == Init /\ [][NextAuth]_vars

(***************************************************************************)
(* The organization and space stages on all their inputs                   *)
(***************************************************************************)
TargetFlags ==
    Flags({EndpointOne}, {FALSE}, {""}, {""}, {<<>>, <<"o", "1">>},
          {<<>>, <<"s", "1">>}, {FALSE}, {NoPasscode})

NextTarget ==
    \/ \E flags \in TargetFlags : runs = 0 /\ Begin(flags, "")
    \/ SetAPIEndpoint(TRUE, LoginOne, "supported")
    \/ \E order \in Orders(DOMAIN CatalogBasic) : AuthenticateBegin(TRUE, CatalogBasic, order)
    \/ AuthenticateTry(TRUE)
    \/ \E listed \in BOOLEAN, n \in ItemCounts : SetOrganization(listed, n)
    \/ \E answer \in MenuAnswers : PromptForOrgName(answer)
    \/ \E found \in BOOLEAN : FindOrg(found)
    \/ \E listed \in BOOLEAN, n \in ItemCounts : SetSpace(listed, n)
    \/ \E answer \in MenuAnswers : PromptForSpaceName(answer)
    \/ \E found \in BOOLEAN : FindSpace(found)
    \/ UpdateMultiInstances

SpecTarget == Init /\ [][NextTarget]_vars

(***************************************************************************)
(* The menus on all their answers                                          *)
(***************************************************************************)
MenuFlags ==
    Flags({EndpointOne}, {FALSE}, {""}, {""}, {<<>>}, {<<>>}, {FALSE}, {NoPasscode})

\* a number beyond the range of int
TwentyNines ==
    <<"9","9","9","9","9","9","9","9","9","9","9","9","9","9","9","9","9","9","9","9">>

OrgMenuAnswers ==
    {<<>>, <<"0">>, <<"1">>, <<"3">>, <<"4">>, <<"-", "1">>, <<"+", "2">>, <<"0", "2">>,
     <<"5", "0">>, <<"5", "1">>, <<"x">>, <<"2", "x">>, <<"-">>,
     MaxInt64Digits, MinInt64Digits, <<"-">> \o MinInt64Digits, TwentyNines}

SpaceMenuAnswers == {<<>>, <<"0">>, <<"2">>, <<"s", "9">>, TwentyNines}

NextMenu ==
    \/ \E flags \in MenuFlags : runs = 0 /\ Begin(flags, "")
    \/ SetAPIEndpoint(TRUE, LoginOne, "supported")
    \/ AuthenticateBegin(TRUE, CatalogBasic, <<"username", "password">>)
    \/ AuthenticateTry(TRUE)
    \/ \E n \in {2, 3, maxChoices} : SetOrganization(TRUE, n)
    \/ \E answer \in OrgMenuAnswers : PromptForOrgName(answer)
    \/ \E found \in BOOLEAN : FindOrg(found)
    \/ SetSpace(TRUE, 2)
    \/ \E answer \in SpaceMenuAnswers : PromptForSpaceName(answer)
    \/ \E found \in BOOLEAN : FindSpace(found)
    \/ UpdateMultiInstances

SpecMenu == Init /\ [][NextMenu]_vars

(***************************************************************************)
(* Logins followed by the endpoint command                                 *)
(***************************************************************************)
EndpointFlags ==
    Flags({EndpointOne, EndpointTwo}, {FALSE}, {"alice"}, {"secret"}, {<<>>}, {<<>>},
          {FALSE}, {NoPasscode})

\* what -a of the endpoint command may hold
Patterns == {"", "one", "two", "login", "example.com", "zzz"}

NextEndpoint ==
    \/ \E flags \in EndpointFlags : Begin(flags, "")
    \/ \E ok \in BOOLEAN, auth \in AllAuthorizationEndpoints :
          auth \in AuthorizationEndpoints(L.endpoint) /\ SetAPIEndpoint(ok, auth, "supported")
    \/ AuthenticateBegin(TRUE, CatalogBasic, <<"username", "password">>)
    \/ \E ok \in BOOLEAN : AuthenticateTry(ok)
    \/ \E n \in {0, 1} : SetOrganization(TRUE, n)
    \/ \E n \in {0, 1} : SetSpace(TRUE, n)
    \/ UpdateMultiInstances
    \/ \E apiEndpointPattern \in Patterns, shown \in BOOLEAN :
          EndpointExecute(apiEndpointPattern, shown)

SpecEndpoint == Init /\ [][NextEndpoint]_vars

(***************************************************************************)
(* One login run whose steps are all taken                                 *)
(***************************************************************************)
LiveFlags ==
    Flags({EndpointOne}, {FALSE}, {""}, {""}, {<<>>}, {<<>>},
          BOOLEAN, {NoPasscode, Passcode("123456")})

\* a step of the run under way: a collaborator call that returns, with the
\* terminal questions before it answered.  A menu takes at most
\* MaxReprompts numbers out of range before an answer that ends it.
RunStep ==
    \/ \E ok \in BOOLEAN : SetAPIEndpoint(ok, LoginOne, "supported")
    \/ ExecuteConflict
    \/ \E fetched \in BOOLEAN : AuthenticateSSOBegin(fetched, CatalogPasscode)
    \/ \E ok \in BOOLEAN : AuthenticateSSOTry(ok)
    \/ \E fetched \in BOOLEAN : AuthenticateBegin(fetched, CatalogBasic, <<"username", "password">>)
    \/ \E ok \in BOOLEAN : AuthenticateTry(ok)
    \/ \E listed \in BOOLEAN, n \in {0, 1, 2} : SetOrganization(listed, n)
    \/ \E answer \in {<<>>, <<"1">>, <<"0">>} : PromptForOrgName(answer)
    \/ \E found \in BOOLEAN : FindOrg(found)
    \/ \E listed \in BOOLEAN, n \in {0, 1, 2} : SetSpace(listed, n)
    \/ \E answer \in {<<>>, <<"1">>, <<"0">>} : PromptForSpaceName(answer)
    \/ \E found \in BOOLEAN : FindSpace(found)
    \/ UpdateMultiInstances

NextLive ==
    \/ \E flags \in LiveFlags : runs = 0 /\ Begin(flags, "")
    \/ RunStep

\* every call returns and every question is answered: a step of the run
\* that stays possible is taken
SpecLive == Init /\ [][NextLive]_vars /\ WF_vars(RunStep)

(***************************************************************************)
(* Reading the trace                                                       *)
(***************************************************************************)
IsAuthenticate(e) == e.op = "Authenticate"

\* the calls of authenticate of the run, in order
AuthCalls == SelectSeq(trace, IsAuthenticate)

\* the positions in the trace of the calls of authenticate
AuthAt == {j \in 1..Len(trace) : trace[j].op = "Authenticate"}

\* the 1-based number of the call at position j
TryOf(j) == Cardinality({k \in AuthAt : k <= j})

\* the positions that belong to the try ending with the call at position j
TryEvents(j) == {k \in 1..j : \A a \in AuthAt : a < j => a < k}

\* the positions of the secret prompts for `key`
SecretAt(key) ==
    {k \in 1..Len(trace) : trace[k].op = "AskForPassword" /\ trace[k].key = key}

\* the positions of the prompts, of either kind, for `key`
PromptAt(key) ==
    {k \in 1..Len(trace) : trace[k].op \in {"Ask", "AskForPassword"} /\ trace[k].key = key}

InLoop == pc \in {"authenticate", "authenticateSSO"}

(***************************************************************************)
(* C1 and C2: the history of instances                                     *)
(***************************************************************************)
\* C1: after a successful login the history holds at most one entry per
\* authorization endpoint and the session just logged in is its first entry.
C1_OneEntryPerIdentity ==
    (pc = "done" /\ err = NoError) =>
        LET h == config.InstanceData
        IN  /\ Len(h) >= 1
            /\ h[1] = CFInstanceData(config)
            /\ \A x, y \in 1..Len(h) :
                  x # y => h[x].AuthorizationEndpoint # h[y].AuthorizationEndpoint

\* C2: the merge writes the new session followed by exactly the entries of
\* the prior history whose authorization endpoint differs from the new
\* session's, in their order.
C2_MergeKeepsTheOthers ==
    [][pc = "updateMultiInstances" =>
          LET s == CFInstanceData(config)
              other(i) == i.AuthorizationEndpoint # s.AuthorizationEndpoint
          IN  config'.InstanceData = <<s>> \o SelectSeq(config.InstanceData, other)]_vars

(***************************************************************************)
(* C3: the bound of the authentication loop                                *)
(***************************************************************************)
\* C3: in both flows authenticate is called min(k,3) times, k the first try
\* that succeeds: every call but the last has failed, a success ends the
\* loop, and three failures end the run with the generic error.
C3_AuthenticateCalls ==
    LET calls == AuthCalls
        n     == Len(calls)
    IN  /\ n <= 3
        /\ \A k \in 1..(n - 1) : ~calls[k].ok
        /\ InLoop => n < 3 /\ (n >= 1 => ~calls[n].ok)
        /\ (n >= 1 /\ calls[n].ok) => pc = "setOrganization" /\ err = NoError
        /\ (n >= 1 /\ ~calls[n].ok /\ ~InLoop) =>
              /\ n = 3
              /\ pc = "done"
              /\ err.msg = "Unable to authenticate."
              /\ err.msg # MsgServerRejected

C3_Witness ==
    /\ pc = "done"
    /\ ~SSOFlow(c)
    /\ Len(AuthCalls) = 3
    /\ \A k \in 1..3 : ~AuthCalls[k].ok
    /\ err.msg = MsgUnableToAuthenticate

(***************************************************************************)
(* C4: both --sso and --sso-passcode                                       *)
(***************************************************************************)
\* C4: a run given both flags ends with the usage error, without any call
\* of fetchPrompts or authenticate, and reaches neither the organization
\* stage, the space stage nor the merge.
C4_ConflictingFlagsEndTheRun ==
    (pc = "done" /\ c.sso /\ c.passcodeSet) =>
        /\ err.msg = MsgConflict
        /\ CountOp("GetLoginPrompts") = 0
        /\ CountOp("Authenticate") = 0
        /\ \A k \in 1..Len(trace) :
              trace[k].op \notin {"ListOrgs", "FindOrg", "ListSpaces", "FindSpace",
                                  "SetInstanceData"}

(***************************************************************************)
(* C5: the selection by the number of listed items                         *)
(***************************************************************************)
\* the positions of the successful listings and of the menu questions
ListedAt(op) == {j \in 1..Len(trace) : trace[j].op = op /\ trace[j].ok}
AskedAt(item) == {j \in 1..Len(trace) : trace[j].op = "Ask" /\ trace[j].key = item}

TooMany == Ev("Say", "There are too many options to display, please type in the name.")

\* the question at position j comes right after the header and the list of
\* the n names numbered from 1, and nothing else
EnumeratedBefore(j, header, names) ==
    LET n == Len(names)
    IN  /\ j > n + 1
        /\ trace[j - n - 1] = Ev("Say", header)
        /\ \A k \in 1..n :
              /\ trace[j - n - 1 + k].op = "Say"
              /\ trace[j - n - 1 + k].key = "item"
              /\ trace[j - n - 1 + k].n = k
              /\ trace[j - n - 1 + k].name = Itoa(k) \o <<".", " ">> \o names[k]

\* the question at position j comes right after the header and the
\* instruction to type the name, with no list
InstructionBefore(j, header) ==
    /\ j > 2
    /\ trace[j - 2] = Ev("Say", header)
    /\ trace[j - 1] = TooMany

\* what a stage does after listing n items named `names`
SelectionByCount(n, names, item, header, asking, targeted, fields) ==
    /\ n = 0 => AskedAt(item) = {} /\ fields = NoFields /\ ~targeted
    /\ n = 1 => AskedAt(item) = {} /\ fields = FieldsOf(names[1]) /\ targeted
    /\ n >= 2 =>
          /\ asking \/ AskedAt(item) # {}
          /\ \A j \in AskedAt(item) :
                IF n < 50 THEN EnumeratedBefore(j, header, names)
                          ELSE InstructionBefore(j, header)
    /\ \A j \in 1..Len(trace) : trace[j] = Ev("Say", header) => n >= 2

SaidTargeted(what) ==
    \E j \in 1..Len(trace) : trace[j].op = "Say" /\ trace[j].key = what

\* C5: without a name override, after listing N items a stage targets
\* nothing and asks nothing for N = 0, targets the one item and asks nothing
\* for N = 1, asks after the list numbered from 1 for 2 <= N < 50, and asks
\* after the instruction to type the name, without list, for N >= 50.
C5_SelectionByCount ==
    /\ \A j \in ListedAt("ListOrgs") :
          LET n == trace[j].n
          IN  SelectionByCount(n, OrgNames(n), "Org",
                               "Select an org (or press enter to skip):",
                               pc = "promptForOrgName",
                               SaidTargeted("Targeted org"),
                               config.OrganizationFields)
    /\ \A j \in ListedAt("ListSpaces") :
          LET n == trace[j].n
          IN  SelectionByCount(n, SpaceNames(n), "Space",
                               "Select a space (or press enter to skip):",
                               pc = "promptForSpaceName",
                               SaidTargeted("Targeted space"),
                               config.SpaceFields)

C5_Witness ==
    /\ \E j \in ListedAt("ListOrgs") : trace[j].n = 49
    /\ AskedAt("Org") # {}
    /\ \E j \in ListedAt("ListSpaces") : trace[j].n = 50
    /\ AskedAt("Space") # {}

(***************************************************************************)
(* C6: the passcode of the SSO flow                                        *)
(***************************************************************************)
\* the credential `key` of the call at position j is the answer to a secret
\* prompt for `key` issued in the same try
PromptedInTry(j, key) ==
    \E k \in SecretAt(key) \cap TryEvents(j) : trace[j].creds[key] = trace[k].val

\* C6: in the SSO flow a passcode given by flag is the passcode of the first
\* call and of no other; every other call sends the answer to a secret
\* prompt of its own try.  With the flag and a first call that succeeds
\* there is one call and no secret prompt.
C6_PasscodeOfEachTry ==
    (SSOFlow(c) /\ ~ConflictingFlags(c)) =>
        /\ \A j \in AuthAt :
              /\ DOMAIN trace[j].creds = {"passcode"}
              /\ IF TryOf(j) = 1 /\ c.passcodeSet
                 THEN /\ trace[j].creds["passcode"] = c.passcode
                      /\ SecretAt("passcode") \cap TryEvents(j) = {}
                 ELSE /\ PromptedInTry(j, "passcode")
                      /\ c.passcodeSet => trace[j].creds["passcode"] # c.passcode
        /\ Cardinality(SecretAt("passcode")) =
              Len(AuthCalls) - (IF c.passcodeSet /\ Len(AuthCalls) >= 1 THEN 1 ELSE 0)
        /\ (c.passcodeSet /\ Len(AuthCalls) >= 1 /\ AuthCalls[1].ok) =>
              Len(AuthCalls) = 1 /\ CountOp("AskForPassword") = 0

C6_Witness ==
    /\ SSOFlow(c)
    /\ c.passcodeSet
    /\ Len(AuthCalls) = 2
    /\ AuthCalls[1].creds["passcode"] = "123456"
    /\ AuthCalls[2].creds["passcode"] # "123456"
    /\ Cardinality(SecretAt("passcode")) = 1

(***************************************************************************)
(* C7: the password of the password flow                                   *)
(***************************************************************************)
\* C7: in the password flow with a "password" prompt, a password given by
\* flag is the password of the first call, which is made without any prompt
\* for the password, of either kind, and of no later call; every other call
\* sends the answer to a secret prompt for the password of its own try.
C7_PasswordOfEachTry ==
    (~SSOFlow(c) /\ "password" \in DOMAIN L.prompts) =>
        /\ \A j \in AuthAt :
              /\ "password" \in DOMAIN trace[j].creds
              /\ IF TryOf(j) = 1 /\ c.p # ""
                 THEN /\ trace[j].creds["password"] = c.p
                      /\ PromptAt("password") \cap TryEvents(j) = {}
                 ELSE /\ PromptedInTry(j, "password")
                      /\ trace[j].creds["password"] # c.p
        /\ Cardinality(SecretAt("password")) =
              Len(AuthCalls) - (IF c.p # "" /\ Len(AuthCalls) >= 1 THEN 1 ELSE 0)

(***************************************************************************)
(* C8: a name override that is not found                                   *)
(***************************************************************************)
FailedAt(op) == {j \in 1..Len(trace) : trace[j].op = op /\ ~trace[j].ok}

\* C8: when the name given by flag is not found, the run ends with the
\* not-found error carrying that name after one find-by-name call, without
\* listing, without menu, and with nothing targeted in that stage.
C8_OverrideNotFound ==
    /\ (c.o # <<>> /\ FailedAt("FindOrg") # {}) =>
          /\ pc = "done"
          /\ err.msg = MsgOrgNotFound
          /\ err.name = c.o
          /\ CountOp("FindOrg") = 1
          /\ CountOp("ListOrgs") = 0
          /\ AskedAt("Org") = {}
          /\ config.OrganizationFields = NoFields
          /\ ~SaidTargeted("Targeted org")
    /\ (c.s # <<>> /\ FailedAt("FindSpace") # {}) =>
          /\ pc = "done"
          /\ err.msg = MsgSpaceNotFound
          /\ err.name = c.s
          /\ CountOp("FindSpace") = 1
          /\ CountOp("ListSpaces") = 0
          /\ AskedAt("Space") = {}
          /\ config.SpaceFields = NoFields
          /\ ~SaidTargeted("Targeted space")

C8_Witness ==
    /\ c.o = <<"o", "1">>
    /\ FailedAt("FindOrg") # {}
    /\ pc = "done"
    /\ err = Error(MsgOrgNotFound, <<"o", "1">>, MsgNotFound)

(***************************************************************************)
(* C9 and C10: the endpoint resolver                                       *)
(***************************************************************************)
\* C9: the effective skip-ssl flag is (persisted skip-ssl) or (explicit
\* skip-ssl), whatever the endpoint flag.
C9_SkipSSLIsTheDisjunction ==
    pc = "setAPIEndpoint" => L.skipSSL = (config.SSLDisabled \/ c.skipSSL)

\* C9 as amended: with an explicit endpoint the effective skip-ssl flag is
\* the explicit one; without, it is (persisted) or (explicit).
C9_SkipSSLOfTheEndpoint ==
    pc = "setAPIEndpoint" =>
        L.skipSSL = IF c.a # "" THEN c.skipSSL ELSE (config.SSLDisabled \/ c.skipSSL)

C9_Witness ==
    /\ pc = "setAPIEndpoint"
    /\ c.a # ""
    /\ config.SSLDisabled
    /\ ~c.skipSSL
    /\ ~L.skipSSL

\* C10: the endpoint is the explicit one if not empty, else the persisted
\* one if not empty, else the answer to the prompt; the prompt is issued
\* only when both are empty and at most once in a run.
C10_EndpointPrecedence ==
    /\ Cardinality(AskedAt("API endpoint")) <= 1
    /\ pc = "setAPIEndpoint" =>
          /\ c.a # "" => L.endpoint = c.a /\ AskedAt("API endpoint") = {}
          /\ (c.a = "" /\ config.Target # "") =>
                L.endpoint = config.Target /\ AskedAt("API endpoint") = {}
          /\ (c.a = "" /\ config.Target = "") =>
                /\ AskedAt("API endpoint") = {1}
                /\ L.endpoint = trace[1].val

C10_Witness ==
    /\ pc = "setAPIEndpoint"
    /\ c.a = ""
    /\ config.Target = ""
    /\ AskedAt("API endpoint") = {1}
    /\ L.endpoint = EndpointTwo

(***************************************************************************)
(* C11: a service account is logged in                                     *)
(***************************************************************************)
CredentialPromptAt == {k \in 1..Len(trace) : IsCredentialPrompt(trace[k])}

\* the run has gone past the endpoint stage and has ended
EndedPastEndpoint == pc = "done" /\ err.msg \notin {MsgEndpoint, MsgVersion}

\* C11: in the password flow with the client_credentials grant type in the
\* configuration, the run ends with the service account error and makes no
\* fetch of the prompts, no call of authenticate and no credential prompt.
C11_ServiceAccountRejected ==
    (runs > 0 /\ ~SSOFlow(c) /\ config.UAAGrantType = "client_credentials") =>
        /\ pc \in {"setAPIEndpoint", "switch", "done"}
        /\ CountOp("GetLoginPrompts") = 0
        /\ CountOp("Authenticate") = 0
        /\ CredentialPromptAt = {}
        /\ EndedPastEndpoint =>
              err.msg = "Service account currently logged in. Use 'cf logout' to log out service account and try again."

C11_Witness ==
    /\ pc = "done"
    /\ ~SSOFlow(c)
    /\ c.u = "alice"
    /\ c.p = "secret"
    /\ config.UAAGrantType = "client_credentials"
    /\ err.msg = MsgServiceAccount
    /\ CountOp("setAPIEndpoint") = 1

(***************************************************************************)
(* C12: no organization, no space stage                                    *)
(***************************************************************************)
\* the organization stage has ended with no organization and no error: the
\* listing held no organization, or the menu was answered with nothing
NoOrganization ==
    \/ \E j \in ListedAt("ListOrgs") : trace[j].n = 0
    \/ \E j \in AskedAt("Org") : trace[j].name = <<>>

\* C12: when the organization stage ends with no organization targeted and
\* no error, the run makes no listing of spaces, no find of a space, no
\* space menu and targets no space, and it does not fail.
C12_NoOrganizationNoSpaceStage ==
    NoOrganization =>
        /\ pc \in {"updateMultiInstances", "done"}
        /\ err = NoError
        /\ CountOp("ListSpaces") = 0
        /\ CountOp("FindSpace") = 0
        /\ AskedAt("Space") = {}
        /\ ~SaidTargeted("Targeted space")
        /\ ~SaidTargeted("Targeted org")
        /\ config.OrganizationFields = NoFields
        /\ config.SpaceFields = NoFields

C12_Witness ==
    /\ pc = "done"
    /\ c.s = <<"s", "1">>
    /\ \E j \in ListedAt("ListOrgs") : trace[j].n = 2
    /\ \E j \in AskedAt("Org") : trace[j].name = <<>>
    /\ \E j \in AskedAt("Org") : trace[j].name = <<"0">>
    /\ CountOp("SetInstanceData") = 1

(***************************************************************************)
(* C13: the history is written last, and only by a run without error       *)
(***************************************************************************)
\* the endpoint, authentication, organization and space stages of the run
\* are over and none has failed
StagesCompleted ==
    /\ pc = "updateMultiInstances"
    /\ err = NoError
    /\ \E j \in 1..Len(trace) : trace[j].op = "setAPIEndpoint" /\ trace[j].ok
    /\ \E j \in 1..Len(trace) : trace[j].op = "GetLoginPrompts" /\ trace[j].ok
    /\ Len(AuthCalls) >= 1 /\ AuthCalls[Len(AuthCalls)].ok
    /\ \A j \in 1..Len(trace) : trace[j].op # "Authenticate" => trace[j].ok

HistoryWrites == CountOp("SetInstanceData")

\* C13: a step changes the history only as the last step of a run whose
\* stages have all completed without error, a run writes the history at
\* most once, and a run that has ended with an error has not written it, so
\* that the history is what it was when the run began.
C13_HistoryWrittenLast ==
    [][/\ (config'.InstanceData # config.InstanceData \/ HistoryWrites' > HistoryWrites) =>
             /\ StagesCompleted
             /\ HistoryWrites = 0
             /\ trace' = Append(trace, Ev("SetInstanceData", ""))
             /\ pc' = "done"
             /\ err' = NoError
       /\ HistoryWrites' <= 1
       /\ (pc' = "done" /\ err' # NoError) =>
             HistoryWrites' = 0 /\ (pc # "done" => config'.InstanceData = config.InstanceData)
       /\ pc' # "done" => HistoryWrites' = 0]_vars

\* a second run has failed and the history still holds the one session of
\* the first run
C13_Witness ==
    /\ runs = 2
    /\ pc = "done"
    /\ err.msg = MsgUnableToAuthenticate
    /\ Len(config.InstanceData) = 1
    /\ config.InstanceData[1].AccessToken = Token[1]
    /\ HistoryWrites = 0

(***************************************************************************)
(* C14: the endpoint command                                               *)
(***************************************************************************)
\* the current session of the configuration is that of the stored instance i
CurrentSessionIs(i) ==
    /\ config.AuthenticationEndpoint = i.AuthorizationEndpoint
    /\ config.AccessToken = i.AccessToken
    /\ config.RefreshToken = i.RefreshToken
    /\ config.APIVersion = i.APIVersion
    /\ config.OrganizationFields = i.OrganizationFields
    /\ config.SpaceFields = i.SpaceFields

\* C14: when the endpoint command has returned without error for a pattern
\* contained in the authorization endpoint of a stored session, the current
\* session of the configuration is that of a stored session matching the
\* pattern.
C14_EndpointSetsTheSession ==
    (pc = "endpoint" /\ err = NoError) =>
        LET matching == {k \in 1..Len(config.InstanceData) :
                            Contains(config.InstanceData[k].AuthorizationEndpoint, c.a)}
        IN  matching # {} => \E k \in matching : CurrentSessionIs(config.InstanceData[k])

(***************************************************************************)
(* C15, C16 and C17: the prompts of the password flow                      *)
(***************************************************************************)
\* C15: in the password flow, whatever the catalog, no prompt is issued for
\* "passcode" and no credentials given to authenticate hold "passcode".
C15_PasscodeNeverHandled ==
    ~SSOFlow(c) =>
        /\ PromptAt("passcode") = {}
        /\ \A j \in AuthAt : "passcode" \notin DOMAIN trace[j].creds

\* C16: in the password flow with a "username" prompt, a username given by
\* flag for a prompt of kind Text is the username of every call and is never
\* asked for; otherwise the username is asked exactly once in the run and
\* that answer is the username of every call, whatever the kind.
C16_UsernameOfEachTry ==
    (~SSOFlow(c) /\ "username" \in DOMAIN L.prompts) =>
        IF L.prompts["username"].Type = "TEXT" /\ c.u # ""
        THEN /\ PromptAt("username") = {}
             /\ \A j \in AuthAt : trace[j].creds["username"] = c.u
        ELSE /\ Cardinality(PromptAt("username")) = 1
             /\ \A j \in AuthAt : \A k \in PromptAt("username") :
                   k < j /\ trace[j].creds["username"] = trace[k].val

\* C17: in the password flow every prompt of kind Text other than
\* "username" is asked exactly once in the run, before the first call of
\* authenticate, and its answer is in the credentials of every call.
C17_TextPromptsAskedOnce ==
    ~SSOFlow(c) =>
        \A key \in DOMAIN L.prompts \ {"username"} :
            L.prompts[key].Type = "TEXT" =>
                /\ Cardinality(PromptAt(key)) = 1
                /\ \A k \in PromptAt(key) :
                      /\ trace[k].op = "Ask"
                      /\ \A j \in AuthAt :
                            /\ k < j
                            /\ key \in DOMAIN trace[j].creds
                            /\ trace[j].creds[key] = trace[k].val

(***************************************************************************)
(* C18: the other secrets of the password flow                             *)
(***************************************************************************)
\* the prompts of kind Secret other than "password" and "passcode"
OtherSecrets ==
    {key \in DOMAIN L.prompts \ {"password", "passcode"} : L.prompts[key].Type = "PASSWORD"}

\* in the try ending with the call at position j the password is held
\* before position k: it was asked for earlier in the try, or it is the one
\* given by flag, which the first try takes without asking
PasswordHeldBefore(j, k) ==
    \/ \E p \in SecretAt("password") \cap TryEvents(j) : p < k
    \/ /\ TryOf(j) = 1
       /\ c.p # ""
       /\ trace[j].creds["password"] = c.p
       /\ SecretAt("password") \cap TryEvents(j) = {}

\* C18: in the password flow every Secret prompt other than "password" and
\* "passcode" is asked as a secret exactly once in each try, its credential
\* is that answer and never a flag value, and in each try the password is
\* held before any of these secrets is asked for.
C18_OtherSecretsOfEachTry ==
    ~SSOFlow(c) =>
        \A key \in OtherSecrets :
            /\ Cardinality(SecretAt(key)) = Len(AuthCalls)
            /\ \A j \in AuthAt :
                  /\ Cardinality(SecretAt(key) \cap TryEvents(j)) = 1
                  /\ PromptedInTry(j, key)
                  /\ trace[j].creds[key] \notin {c.u, c.p, c.passcode}
                  /\ "password" \in DOMAIN L.prompts =>
                        \A k \in SecretAt(key) \cap TryEvents(j) : PasswordHeldBefore(j, k)

C18_Witness ==
    /\ ~SSOFlow(c)
    /\ c.u = "alice"
    /\ c.p = "secret"
    /\ OtherSecrets = {"mfaCode", "pin"}
    /\ Len(AuthCalls) = 2
    /\ Cardinality(SecretAt("mfaCode")) = 2
    /\ Cardinality(SecretAt("pin")) = 2
    /\ Cardinality(SecretAt("password")) = 1
    /\ \E k \in SecretAt("pin"), m \in SecretAt("mfaCode"), j \in AuthAt :
          k < m /\ m < j /\ TryOf(j) = 1

(***************************************************************************)
(* C19: the answers that end a menu                                        *)
(***************************************************************************)
\* the digits of an answer without its sign
Unsigned(a) == IF a # <<>> /\ a[1] \in {"+", "-"} THEN Tail(a) ELSE a

\* the answer is a decimal numeral: an optional sign, then digits
IsNumeral(a) ==
    Unsigned(a) # <<>> /\ \A k \in 1..Len(Unsigned(a)) : IsDigit(Unsigned(a)[k])

\* the numeral is within the range of a 64-bit integer
FitsInt64(a) ==
    LET sig   == StripZeros(Unsigned(a))
        limit == IF a[1] = "-" THEN MinInt64Digits ELSE MaxInt64Digits
    IN  Len(sig) < 19 \/ (Len(sig) = 19 /\ ~DigitsGreater(sig, limit))

IsNumeral64(a) == IsNumeral(a) /\ FitsInt64(a)

\* the numeral denotes a number of 1..n
InList(a, n) ==
    LET sig == StripZeros(Unsigned(a))
    IN  /\ a[1] # "-"
        /\ Len(sig) \in 1..9
        /\ DecimalValue(sig, 0) \in 1..n

\* the name the menu has returned is v
Returned(findPc, findOp, held, v) ==
    IF pc = findPc THEN held = v
    ELSE /\ CountOp(findOp) = 1
         /\ \E k \in 1..Len(trace) : trace[k].op = findOp /\ trace[k].name = v

\* what follows each answer to the menu of `item` over the n listed names
SelectorStops(Numeric(_), item, names, promptPc, findPc, findOp, held, fields) ==
    \A j \in AskedAt(item) :
        LET a    == trace[j].name
            n    == Len(names)
            last == pc # promptPc /\ \A k \in AskedAt(item) : k <= j
        IN  /\ (Numeric(a) /\ ~InList(a, n)) =>
                  pc = promptPc \/ \E k \in AskedAt(item) : k > j
            /\ (Numeric(a) /\ InList(a, n)) =>
                  last /\ Returned(findPc, findOp, held, names[DecimalValue(StripZeros(Unsigned(a)), 0)])
            /\ (a # <<>> /\ ~Numeric(a)) =>
                  last /\ Returned(findPc, findOp, held, a)
            /\ a = <<>> =>
                  /\ last
                  /\ CountOp(findOp) = 0
                  /\ fields = NoFields
                  /\ pc \in {"updateMultiInstances", "done"}
                  /\ err = NoError

SelectorOfBothStages(Numeric(_)) ==
    /\ \A j \in ListedAt("ListOrgs") :
          SelectorStops(Numeric, "Org", OrgNames(trace[j].n), "promptForOrgName",
                        "findOrg", "FindOrg", L.orgName, config.OrganizationFields)
    /\ \A j \in ListedAt("ListSpaces") :
          SelectorStops(Numeric, "Space", SpaceNames(trace[j].n), "promptForSpaceName",
                        "findSpace", "FindSpace", L.spaceName, config.SpaceFields)

\* C19: the menu over n >= 2 names asks again after every numeral outside
\* 1..n and ends only on a numeral i of 1..n, returning the i-th name, on a
\* non-empty answer that is not a numeral, returned as it is, or on an empty
\* answer, returning no selection and no error.
C19_SelectorStops == SelectorOfBothStages(IsNumeral)

\* C19 as amended: as above for the numerals within the range of a 64-bit
\* integer; a numeral beyond that range is returned as it is, like an
\* answer that is not a numeral.
C19_SelectorStopsInt64 == SelectorOfBothStages(IsNumeral64)

C19_Witness ==
    /\ pc = "findOrg"
    /\ Cardinality(AskedAt("Org")) = 2
    /\ \E j, k \in AskedAt("Org") :
          j < k /\ trace[j].name = <<"5", "1">> /\ trace[k].name = TwentyNines
    /\ L.orgName = TwentyNines

(***************************************************************************)
(* C20: the usage error and the network                                    *)
(***************************************************************************)
\* C20: when the run ends with the usage error of --sso with
\* --sso-passcode, it has not called setAPIEndpoint, has not fetched the
\* prompts and has not called authenticate.
C20_ConflictBeforeNetwork ==
    (pc = "done" /\ err.msg = "Incorrect usage: --sso-passcode flag cannot be used with --sso") =>
        /\ CountOp("setAPIEndpoint") = 0
        /\ CountOp("GetLoginPrompts") = 0
        /\ CountOp("Authenticate") = 0

(***************************************************************************)
(* C21: the organization and the space of the head entry                   *)
(***************************************************************************)
\* the fields of the item the run has said it targeted, if any
TargetedFields(what) ==
    IF SaidTargeted(what)
    THEN LET j == CHOOSE k \in 1..Len(trace) : trace[k].op = "Say" /\ trace[k].key = what
         IN  FieldsOf(trace[j].name)
    ELSE NoFields

\* C21: the head entry written by a successful run holds the organization
\* and the space targeted in that run, and empty fields for what the run
\* has not targeted: nothing of an earlier login is in it.
C21_HeadCarriesThisRun ==
    (pc = "done" /\ err = NoError) =>
        LET head == config.InstanceData[1]
        IN  /\ Count("Say", "Targeted org") <= 1
            /\ Count("Say", "Targeted space") <= 1
            /\ head.OrganizationFields = TargetedFields("Targeted org")
            /\ head.SpaceFields = TargetedFields("Targeted space")
            /\ head.OrganizationFields = NoFields => head.SpaceFields = NoFields
            /\ head.AccessToken = Token[runs]

\* the second login has targeted nothing, after a first login that has
\* targeted an organization and a space
C21_Witness ==
    /\ runs = 2
    /\ pc = "done"
    /\ err = NoError
    /\ Len(config.InstanceData) = 2
    /\ config.InstanceData[2].OrganizationFields # NoFields
    /\ config.InstanceData[2].SpaceFields # NoFields
    /\ config.InstanceData[1].OrganizationFields = NoFields
    /\ config.InstanceData[1].SpaceFields = NoFields
    /\ config.InstanceData[1].AuthorizationEndpoint = config.InstanceData[2].AuthorizationEndpoint

(***************************************************************************)
(* C22: the run ends                                                       *)
(***************************************************************************)
InRun == pc \notin {"idle", "done", "endpoint"}

\* C22: when every call returns and every menu gets, after finitely many
\* numbers out of range, an answer that ends it, every run ends; the
\* authentication stage ends by itself, after at most 3 calls of
\* authenticate, whatever the answers; the questions of one menu are
\* bounded by the answers out of range alone.
C22_RunsTerminate ==
    /\ [](Len(AuthCalls) <= 3)
    /\ [](Cardinality(AskedAt("Org")) <= MaxReprompts + 1)
    /\ [](Cardinality(AskedAt("Space")) <= MaxReprompts + 1)
    /\ [](InLoop => <>(~InLoop))
    /\ [](InRun => <>(pc = "done"))

\* a run that has ended after three calls of authenticate and the largest
\* number of questions in both menus
C22_Witness ==
    /\ pc = "done"
    /\ err = NoError
    /\ Len(AuthCalls) = 3
    /\ Cardinality(AskedAt("Org")) = MaxReprompts + 1
    /\ Cardinality(AskedAt("Space")) = MaxReprompts + 1
    /\ CountOp("SetInstanceData") = 1

====
